---- MODULE Spec2Model ----
(***************************************************************************)
(* A model of imagecolorizer-rs (src/src/main.rs): the palette argument    *)
(* parsing, the optional quantization pre-pass, the data-parallel per-pixel*)
(* closure (box averaging, nearest palette colour), rayon's ordered        *)
(* collect and the sequential scatter into the output image.               *)
(*                                                                         *)
(* A colour Rgb<u8> is a triple <<r, g, b>> of 0..255.  An RgbImage is a   *)
(* record [width, height, data] whose data is the row-major pixel buffer   *)
(* (a sequence, pixel (x, y) at position y * width + x + 1).               *)
(* Palette sources -w / -x (external files and commands) and the final     *)
(* blur / save are outside the model.                                      *)
(***************************************************************************)
EXTENDS Integers, Sequences, FiniteSets, TLC

VARIABLES
    pc,             \* position in main: "args", "quantize", "map", "scatter", "done", "panicked"
    palette_input,  \* args.palette : Option<Vec<String>>, None once moved out
    average,        \* args.average : i32
    no_quantize,    \* args.no_quantize
    input_img,      \* the decoded (then possibly quantized) image
    palette,        \* Vec<Rgb<u8>>
    palette_size,   \* the u8 handed to ImagePipeline::palette_size, None if never called
    pending,        \* items of par_enumerate_pixels no worker has taken yet
    pixel_vec,      \* per item: Some(the Vec passed to average_color), None if not called
    averaged_pixel, \* per item: Some(the value the first map returned)
    output,         \* the collected Vec<Rgb<u8>>: per slot Some(colour) once written
    output_img,     \* RgbImage::new(width, height), then filled by put_pixel
    i,              \* the scatter loop's counter
    put_count,      \* per buffer cell, the number of put_pixel calls so far
    metric          \* the running state of one color_difference call

vars == <<pc, palette_input, average, no_quantize, input_img, palette,
          palette_size, pending, pixel_vec, averaged_pixel, output,
          output_img, i, put_count, metric>>

\* Option<T>: a sequence of at most one element.
None == <<>>
Some(v) == <<v>>

\* An argument of --palette is the hex number after its '#', or holds no '#'.
NoHash == 0 - 1

\* ------------------------------------------------------------------ bounds
MaxPixels == 4
MaxPixelsLarge == 2
MaxAverage == 2
MaxPaletteArgs == 2
LargePaletteArgs == 256

\* Program constants.
\* u32::MAX = 65535 * 65536 + 65535.  A u32 is kept as its two 16-bit halves
\* <<high, low>>, compared high half first.
U16Max == 65535
U8Modulus == 256
U8Max == 255

\* Pixel colours of the input images and hex numbers of the --palette arguments.
PixelColors == {<<0, 0, 0>>, <<10, 0, 0>>}
HexArgs == {0, 655360}
ChannelSamples == {0, 1, 128, 255}

Black == <<0, 0, 0>>

Range(s) == {s[k] : k \in 1..Len(s)}

\* The element of a one-element set: {F(v) : v \in {e}} computes e once for
\* all its uses in F.
TheOne(S) == CHOOSE v \in S : TRUE

Min(a, b) == IF a <= b THEN a ELSE b
Max(a, b) == IF a >= b THEN a ELSE b

\* ------------------------------------------------------------- RgbImage
NewImage(w, h) == [width |-> w, height |-> h, data |-> [k \in 1..(w * h) |-> Black]]

GetPixel(img, x, y) == img.data[y * img.width + x + 1]

\* get_pixel_checked: None outside the image.
GetPixelChecked(img, x, y) ==
    IF x < img.width /\ y < img.height THEN Some(GetPixel(img, x, y)) ELSE None

NumPixels(img) == img.width * img.height

Dims(n) == {<<w, h>> \in (1..n) \X (1..n) : w * h <= n}

ImagesOf(w, h) ==
    {[width |-> w, height |-> h, data |-> d] : d \in [1..(w * h) -> PixelColors]}

\* The images of at most n pixels.
Images(n) == UNION {ImagesOf(d[1], d[2]) : d \in Dims(n)}

\* ------------------------------------------------------ color_difference
\* The subtraction without max and min, colors.0 - colors.1.
ChannelDiffUnordered(a, b) == a - b

\* colors.0.max(colors.1) - colors.0.min(colors.1): the difference of the two
\* operands of the u8 subtraction, before it is stored in a u8.
ChannelDiff(a, b) == Max(a, b) - Min(a, b)

\* One step of the fold: acc + (...) as u32.  Three u8 values never carry
\* out of a u32.
FoldChannel(acc, a, b) == acc + (ChannelDiff(a, b) % U8Modulus)

\* The fold over the zipped channels from channel k on.
RECURSIVE ColorDifferenceFrom(_, _, _, _)
ColorDifferenceFrom(acc, color1, color2, k) ==
    IF k > 3 THEN acc
    ELSE ColorDifferenceFrom(FoldChannel(acc, color1[k], color2[k]), color1, color2, k + 1)

ColorDifference(color1, color2) == ColorDifferenceFrom(0, color1, color2, 1)

\* --------------------------------------------------------- average_color
RECURSIVE SumChannel(_, _, _)
SumChannel(pixels, x, k) ==
    IF k > Len(pixels) THEN 0 ELSE pixels[k][x] + SumChannel(pixels, x, k + 1)

Clamp(v, lo, hi) == IF v < lo THEN lo ELSE IF v > hi THEN hi ELSE v

\* None stands for the panic of a division by pixels.len() = 0.
AverageColor(pixels) ==
    IF Len(pixels) = 0 THEN None
    ELSE Some([x \in 1..3 |-> Clamp(SumChannel(pixels, x, 1) \div Len(pixels), 0, U8Max)])


\* ------------------------------------------------------- palette parsing
\* u32::from_str_radix(hex_str, 16), then the three shifts and casts to u8.
HexToRgb(hex_num) ==
    <<(hex_num \div 65536) % U8Modulus, (hex_num \div 256) % U8Modulus, hex_num % U8Modulus>>

\* The filters keep the arguments that hold a '#'; the map parses each.
ParsedColors(args) ==
    LET kept == SelectSeq(args, LAMBDA t : t # NoHash)
    IN [k \in 1..Len(kept) |-> HexToRgb(kept[k])]

\* collect() into the HashSet.
PaletteHash(args) == Range(ParsedColors(args))

\* The colours of s[lo..hi] not in acc, appended to acc in their order.  The
\* range is halved and the left half's value taken before the right half
\* starts, which keeps the evaluation shallow.
RECURSIVE FirstOccurrences(_, _, _, _)
FirstOccurrences(acc, s, lo, hi) ==
    IF lo > hi THEN acc
    ELSE IF lo = hi
    THEN IF s[lo] \in Range(acc) THEN acc ELSE Append(acc, s[lo])
    ELSE LET mid == (lo + hi) \div 2
         IN TheOne({FirstOccurrences(left, s, mid + 1, hi) :
                       left \in {FirstOccurrences(acc, s, lo, mid)}})

Reverse(s) == [k \in 1..Len(s) |-> s[Len(s) + 1 - k]]

\* HashSet::into_iter().collect(): the elements once each, in an order the
\* hasher's random state decides.  Every order for a set of at most
\* MaxPaletteArgs colours; for the larger sets the order of insertion and
\* its reverse.
IntoIterOrders(args) ==
    LET S == PaletteHash(args)
    IN IF Cardinality(S) <= MaxPaletteArgs
       THEN {s \in [1..Cardinality(S) -> S] : Range(s) = S}
       ELSE LET ins == ParsedColors(args)
                first == FirstOccurrences(<<>>, ins, 1, Len(ins))
            IN {first, Reverse(first)}

DefaultPalette ==
    << <<0, 0, 0>>, <<29, 43, 83>>, <<126, 37, 83>>, <<0, 135, 81>>,
       <<171, 82, 54>>, <<95, 87, 79>>, <<194, 195, 199>>, <<255, 241, 232>>,
       <<255, 0, 77>>, <<255, 163, 0>>, <<255, 236, 39>>, <<0, 228, 54>>,
       <<41, 173, 255>>, <<131, 118, 156>>, <<255, 119, 168>>, <<255, 204, 170>> >>

\* ------------------------------------------------- the per-pixel closures
\* The values a range lo..hi (hi excluded) yields, in order; none if lo >= hi.
RangeSeq(lo, hi) == [j \in 1..(hi - lo) |-> lo + j - 1]

\* The range with its ends swapped, args.average..-args.average: it is empty.
WindowOffsetsSwapped(r) == RangeSeq(r, 0 - r)

\* -args.average..args.average
WindowOffsets(r) == RangeSeq(0 - r, r)

\* .clamp(0, input_img.width() as i32) and .clamp(0, input_img.height() as i32)
ClampX(img, v) == Clamp(v, 0, img.width)
ClampY(img, v) == Clamp(v, 0, img.height)

\* The Vec the nested for loops build for the pixel at (x, y): rows outside,
\* columns inside, a pixel pushed only when get_pixel_checked returns Some.
PixelVec(img, x, y, r) ==
    LET All(offs, n) ==
            [k \in 1..(n * n) |->
                GetPixelChecked(img,
                                ClampX(img, x + offs[((k - 1) % n) + 1]),
                                ClampY(img, y + offs[((k - 1) \div n) + 1]))]
    IN TheOne({[k \in 1..Len(hits) |-> hits[k][1]] :
                  hits \in {SelectSeq(All(offs, Len(offs)), LAMBDA p : p # None) :
                               offs \in {WindowOffsets(r)}}})

\* The first map: [vec: the Vec given to average_color if it was called,
\* ret: Some(the colour returned), None if average_color panicked].
FirstMap(img, x, y, pixel, avg) ==
    IF avg > 0
    THEN TheOne({[vec |-> Some(pv), ret |-> AverageColor(pv)] :
                    pv \in {PixelVec(img, x, y, avg)}})
    ELSE [vec |-> None, ret |-> Some(pixel)]

\* The second map's fold over (color, color_difference(averaged_pixel, color)).
ToU32(n) == <<n \div (U16Max + 1), n % (U16Max + 1)>>

U32Lt(a, b) == a[1] < b[1] \/ (a[1] = b[1] /\ a[2] < b[2])

\* The fold started from distance 0 instead of u32::MAX.
FoldInitZero == <<Black, ToU32(0)>>

\* (Rgb([0, 0, 0]), u32::MAX)
FoldInit == <<Black, <<U16Max, U16Max>> >>

\* The fold's comparison as <= instead of <.
FoldStepLastWins(lowest_current, x) ==
    IF ~U32Lt(lowest_current[2], x[2]) THEN x ELSE lowest_current

FoldStep(lowest_current, x) == IF U32Lt(x[2], lowest_current[2]) THEN x ELSE lowest_current

\* The left fold over pal[lo..hi] from lowest_current: the steps are applied in
\* the palette's order, the range halved as in FirstOccurrences.
RECURSIVE FoldPalette(_, _, _, _, _)
FoldPalette(lowest_current, averaged, pal, lo, hi) ==
    IF lo > hi THEN lowest_current
    ELSE IF lo = hi
    THEN FoldStep(lowest_current, <<pal[lo], ToU32(ColorDifference(averaged, pal[lo]))>>)
    ELSE LET mid == (lo + hi) \div 2
         IN TheOne({FoldPalette(left, averaged, pal, mid + 1, hi) :
                       left \in {FoldPalette(lowest_current, averaged, pal, lo, mid)}})

NearestColor(averaged, pal) ==
    TheOne({FoldPalette(FoldInit, a, pal, 1, Len(pal)) : a \in {averaged}})[1]

\* par_enumerate_pixels: item k (from 0) is the pixel at (k % width, k / width).
ItemX(img, k) == k % img.width
ItemY(img, k) == k \div img.width

\* A collect that pushes the results in the order the workers finish.
CollectSlotByCompletion(k, n, left) == n - Cardinality(left) + 1

\* collect() of an indexed parallel iterator: item k lands in slot k of the
\* Vec, whatever the order the workers finish in (slots count from 1 here).
CollectSlot(k, n, left) == k + 1

\* x taken as i / width.
ScatterXByRow(img, n) == n \div img.width

\* The scatter loop's coordinates for counter i: x = i % width, y = i / width.
ScatterX(img, n) == n % img.width

\* y taken as i / height.
ScatterYByHeight(img, n) == n \div img.height

ScatterY(img, n) == n \div img.width

\* ---------------------------------------------------------------- inputs
RECURSIVE SeqsUpTo(_, _)
SeqsUpTo(S, n) ==
    IF n = 0 THEN {<<>>}
    ELSE LET shorter == SeqsUpTo(S, n - 1)
         IN shorter \cup {Append(s, v) : s \in {t \in shorter : Len(t) = n - 1}, v \in S}

\* --palette absent, or given with up to MaxPaletteArgs arguments.
PaletteInputs == {None} \cup {Some(a) : a \in SeqsUpTo(HexArgs \cup {NoHash}, MaxPaletteArgs)}

\* --palette given LargePaletteArgs distinct colours: #000000, #000001, ...
LargePaletteInputs == {Some([k \in 1..LargePaletteArgs |-> k - 1])}

MetricIdle == [color1 |-> Black, color2 |-> Black, k |-> 0, acc |-> 0, underflow |-> FALSE]

MetricColors == ChannelSamples \X ChannelSamples \X ChannelSamples

\* ------------------------------------------------------------------ main
\* main up to the palette block: arguments parsed, image decoded, output_img
\* allocated with the input's dimensions, the default palette in place.
InitWith(inputs, n) ==
    /\ pc = "args"
    /\ palette_input \in inputs
    /\ average \in 0..MaxAverage
    /\ no_quantize \in BOOLEAN
    /\ input_img \in Images(n)
    /\ output_img = NewImage(input_img.width, input_img.height)
    /\ palette = DefaultPalette
    /\ palette_size = None
    /\ pending = {}
    /\ pixel_vec = <<>>
    /\ averaged_pixel = <<>>
    /\ output = <<>>
    /\ i = 0
    /\ put_count = [k \in 1..NumPixels(input_img) |-> 0]
    /\ metric = MetricIdle

Init == InitWith(PaletteInputs, MaxPixels)

InitLarge == InitWith(LargePaletteInputs, MaxPixelsLarge)

\* if let Some(palette_input) = args.palette { ... }
LoadPalette ==
    /\ pc = "args"
    /\ IF palette_input = None
       THEN /\ pc' = "quantize"
            /\ UNCHANGED palette
       ELSE IF Len(palette_input[1]) = 0
       THEN /\ pc' = "panicked"
            /\ UNCHANGED palette
       ELSE /\ pc' = "quantize"
            /\ palette' \in IntoIterOrders(palette_input[1])
    /\ palette_input' = None
    /\ UNCHANGED <<average, no_quantize, input_img, palette_size, pending, pixel_vec,
                   averaged_pixel, output, output_img, i, put_count, metric>>

\* What the two maps and collect() start from: every item pending, no slot written.
StartMap(img) ==
    /\ pc' = "map"
    /\ pending' = 0..(NumPixels(img) - 1)
    /\ pixel_vec' = [k \in 1..NumPixels(img) |-> None]
    /\ averaged_pixel' = [k \in 1..NumPixels(img) |-> None]
    /\ output' = [k \in 1..NumPixels(img) |-> None]

\* if !args.no_quantize { input_img = ImagePipeline ... .quantized_rgbimage_par() }
\* The quantizer is an external crate: when it succeeds it returns some image
\* of the same dimensions.  palette.len() as u8 is what it is told.
Quantize ==
    /\ pc = "quantize"
    /\ ~no_quantize
    /\ palette_size' = Some(Len(palette) % U8Modulus)
    /\ input_img' \in ImagesOf(input_img.width, input_img.height)
    /\ StartMap(input_img)
    /\ UNCHANGED <<palette_input, average, no_quantize, palette, output_img, i,
                   put_count, metric>>

\* The other outcome of the pre-pass: the crate rejects its input or its
\* parameters and the unwrap (or the crate itself) panics.
QuantizeFails ==
    /\ pc = "quantize"
    /\ ~no_quantize
    /\ palette_size' = Some(Len(palette) % U8Modulus)
    /\ pc' = "panicked"
    /\ UNCHANGED <<palette_input, average, no_quantize, input_img, palette, pending,
                   pixel_vec, averaged_pixel, output, output_img, i, put_count, metric>>

SkipQuantize ==
    /\ pc = "quantize"
    /\ no_quantize
    /\ StartMap(input_img)
    /\ UNCHANGED <<palette_input, average, no_quantize, input_img, palette,
                   palette_size, output_img, i, put_count, metric>>

\* One worker runs both maps on item k and collect() stores the result.  A
\* panic in the closure (the division by zero) ends the program.
MapPixel(k) ==
    /\ pc = "map"
    /\ k \in pending
    /\ \E fm \in {FirstMap(input_img, ItemX(input_img, k), ItemY(input_img, k),
                              input_img.data[k + 1], average)} :
          /\ pixel_vec' = [pixel_vec EXCEPT ![k + 1] = fm.vec]
          /\ IF fm.ret = None
             THEN /\ pc' = "panicked"
                  /\ UNCHANGED <<averaged_pixel, output>>
             ELSE /\ pc' = pc
                  /\ averaged_pixel' = [averaged_pixel EXCEPT ![k + 1] = fm.ret]
                  /\ output' = [output EXCEPT
                                   ![CollectSlot(k, Len(output), pending)] =
                                       Some(NearestColor(fm.ret[1], palette))]
    /\ pending' = pending \ {k}
    /\ UNCHANGED <<palette_input, average, no_quantize, input_img, palette,
                   palette_size, output_img, i, put_count, metric>>

\* collect() returns once every item is done; the for loop starts at 0.
Collect ==
    /\ pc = "map"
    /\ pending = {}
    /\ pc' = "scatter"
    /\ i' = 0
    /\ UNCHANGED <<palette_input, average, no_quantize, input_img, palette,
                   palette_size, pending, pixel_vec, averaged_pixel, output,
                   output_img, put_count, metric>>

\* One iteration of for i in 0..output.len(): put_pixel panics outside the image.
Scatter ==
    /\ pc = "scatter"
    /\ i < Len(output)
    /\ LET x == ScatterX(input_img, i)
           y == ScatterY(input_img, i)
           cell == y * output_img.width + x + 1
       IN IF x < output_img.width /\ y < output_img.height
          THEN /\ output_img' = [output_img EXCEPT !.data[cell] = output[i + 1][1]]
               /\ put_count' = [put_count EXCEPT ![cell] = @ + 1]
               /\ i' = i + 1
               /\ pc' = pc
          ELSE /\ pc' = "panicked"
               /\ UNCHANGED <<output_img, put_count, i>>
    /\ UNCHANGED <<palette_input, average, no_quantize, input_img, palette,
                   palette_size, pending, pixel_vec, averaged_pixel, output, metric>>

ScatterDone ==
    /\ pc = "scatter"
    /\ i >= Len(output)
    /\ pc' = "done"
    /\ UNCHANGED <<palette_input, average, no_quantize, input_img, palette,
                   palette_size, pending, pixel_vec, averaged_pixel, output,
                   output_img, i, put_count, metric>>

Next ==
    \/ LoadPalette
    \/ Quantize
    \/ QuantizeFails
    \/ SkipQuantize
    \/ \E k \in 0..(MaxPixels - 1) : MapPixel(k)
    \/ Collect
    \/ Scatter
    \/ ScatterDone

Spec == Init /\ [][Next]_vars

SpecLarge == InitLarge /\ [][Next]_vars

\* ------------------------------------------------- color_difference, stepwise
\* One call color_difference(color1, color2), one channel of the fold per step.
InitMetric ==
    /\ metric \in {[color1 |-> a, color2 |-> b, k |-> 1, acc |-> 0, underflow |-> FALSE] :
                      a \in MetricColors, b \in MetricColors}
    /\ pc = "metric"
    /\ palette_input = None
    /\ average = 0
    /\ no_quantize = TRUE
    /\ input_img = NewImage(0, 0)
    /\ output_img = NewImage(0, 0)
    /\ palette = DefaultPalette
    /\ palette_size = None
    /\ pending = {}
    /\ pixel_vec = <<>>
    /\ averaged_pixel = <<>>
    /\ output = <<>>
    /\ i = 0
    /\ put_count = <<>>

\* A u8 subtraction below zero panics in a debug build and wraps in a release
\* build: FoldChannel is the wrapped sum, underflow records that it happened.
MetricFold ==
    /\ pc = "metric"
    /\ metric.k \in 1..3
    /\ LET a == metric.color1[metric.k]
           b == metric.color2[metric.k]
       IN metric' = [metric EXCEPT
                        !.acc = FoldChannel(@, a, b),
                        !.underflow = @ \/ ChannelDiff(a, b) < 0,
                        !.k = @ + 1]
    /\ UNCHANGED <<pc, palette_input, average, no_quantize, input_img, palette,
                   palette_size, pending, pixel_vec, averaged_pixel, output,
                   output_img, i, put_count>>

NextMetric == MetricFold

SpecMetric == InitMetric /\ [][NextMetric]_vars

\* ================================================================ claims
Abs(n) == IF n < 0 THEN 0 - n ELSE n

\* The sum over the three channels of the absolute channel differences.
L1(a, b) == Abs(a[1] - b[1]) + Abs(a[2] - b[2]) + Abs(a[3] - b[3])

Mapped == pc \in {"map", "scatter", "done"}

Items == 1..Len(output)

\* The pixel of the input image that item k (from 1) enumerates.
ItemPixel(k) == GetPixel(input_img, (k - 1) % input_img.width, (k - 1) \div input_img.width)

\* C1: for a non-empty palette, once the transform has completed every cell of
\* the output image holds an element of the palette, namely the palette colour
\* matched for that cell's item.
C1_OutputInPalette ==
    (pc = "done" /\ palette # <<>>) =>
        \A k \in 1..Len(output_img.data) :
            /\ output_img.data[k] \in Range(palette)
            /\ output_img.data[k] = NearestColor(averaged_pixel[k][1], palette)

C1_Witness ==
    /\ pc = "done"
    /\ palette # <<>>
    /\ Black \notin Range(palette)
    /\ average > 0
    /\ NumPixels(input_img) = MaxPixels

\* C2: for a non-empty palette the colour matched for an item is an entry of
\* the palette at minimum distance from the item's averaged colour, and the
\* earliest such entry in the palette's order.
C2_NearestIsFirstMinimum ==
    (Mapped /\ palette # <<>>) =>
        \A k \in Items :
            output[k] # None =>
                LET c == averaged_pixel[k][1]
                IN \E j \in 1..Len(palette) :
                       /\ output[k][1] = palette[j]
                       /\ \A l \in 1..Len(palette) : L1(c, palette[l]) >= L1(c, palette[j])
                       /\ \A l \in 1..(j - 1) : L1(c, palette[l]) > L1(c, palette[j])

\* An item whose averaged colour is equally near to two palette entries.
C2_Witness ==
    /\ Mapped
    /\ \E k \in Items :
           /\ output[k] # None
           /\ \E j, l \in 1..Len(palette) :
                  /\ j < l
                  /\ palette[j] # palette[l]
                  /\ L1(averaged_pixel[k][1], palette[j]) = L1(averaged_pixel[k][1], palette[l])
                  /\ \A m \in 1..Len(palette) :
                         L1(averaged_pixel[k][1], palette[m]) >= L1(averaged_pixel[k][1], palette[j])

\* What one worker computes for item k of the current input.
SequentialResult(k) ==
    TheOne({NearestColor(fm.ret[1], palette) :
               fm \in {FirstMap(input_img, (k - 1) % input_img.width,
                                (k - 1) \div input_img.width, input_img.data[k], average)}})

\* C3: whatever the order in which the workers take the items, each collected
\* slot holds what the sequential evaluation of its item gives, and the
\* finished output image is the sequential one cell for cell.
C3_ParallelEqualsSequential ==
    Mapped =>
        /\ \A k \in Items : output[k] # None => output[k] = Some(SequentialResult(k))
        /\ pc = "done" =>
               /\ output_img.width = input_img.width
               /\ output_img.height = input_img.height
               /\ \A k \in Items : output_img.data[k] = SequentialResult(k)

\* A later item finished while an earlier one, with another result, is pending.
C3_Witness ==
    /\ pc = "map"
    /\ \E k, l \in Items :
           /\ k < l
           /\ (k - 1) \in pending
           /\ output[l] # None
           /\ output[l][1] # SequentialResult(k)

\* C4: an empty palette aborts the transform before any pixel is processed and
\* no output image is produced from it.  Stated for the runs that skip the
\* pre-pass: what the external quantizer does when told 0 colours is not in
\* the source.
C4_EmptyPaletteAborts ==
    (palette = <<>> /\ Mapped /\ no_quantize) =>
        /\ pc # "done"
        /\ \A k \in Items : output[k] = None

\* C5: with radius 0 and no quantization the output image has the input's
\* dimensions and its cell (x, y) is the palette match of the input's pixel
\* (x, y), which is the colour given to the matcher.
C5_RadiusZeroIdentity ==
    (pc = "done" /\ average = 0 /\ no_quantize /\ palette # <<>>) =>
        /\ output_img.width = input_img.width
        /\ output_img.height = input_img.height
        /\ Len(output_img.data) = NumPixels(input_img)
        /\ \A x \in 0..(input_img.width - 1), y \in 0..(input_img.height - 1) :
               /\ averaged_pixel[y * input_img.width + x + 1] = Some(GetPixel(input_img, x, y))
               /\ GetPixel(output_img, x, y) = NearestColor(GetPixel(input_img, x, y), palette)

C5_Witness ==
    /\ pc = "done"
    /\ average = 0
    /\ no_quantize
    /\ palette # <<>>
    /\ input_img.width = 2
    /\ input_img.height = 2
    /\ GetPixel(output_img, 1, 0) # GetPixel(output_img, 0, 1)

\* The samples the claim describes: one per offset, at the coordinate clamped
\* into [0, dimension - 1] on each axis.
ClaimedSamples(img, x, y, r) ==
    [k \in 1..(4 * r * r) |->
        GetPixel(img,
                 Clamp(x + ((k - 1) % (2 * r)) - r, 0, img.width - 1),
                 Clamp(y + ((k - 1) \div (2 * r)) - r, 0, img.height - 1))]

\* C6: for a radius > 0 the averaged colour of every item is the truncated
\* per-channel mean of exactly (2 * radius)^2 samples, an offset outside the
\* image contributing the clamped edge pixel.
C6_AverageOverFullWindow ==
    (Mapped /\ average > 0) =>
        \A k \in Items :
            averaged_pixel[k] # None =>
                LET claimed == ClaimedSamples(input_img, (k - 1) % input_img.width,
                                              (k - 1) \div input_img.width, average)
                IN averaged_pixel[k][1] =
                       [x \in 1..3 |-> SumChannel(claimed, x, 1) \div Len(claimed)]

\* C7: the averager is not called for radius 0, and for a radius > 0 the Vec
\* given to it is never empty: it holds at least the item's own pixel.
C7_SamplesNonEmpty ==
    \A k \in 1..Len(pixel_vec) :
        /\ average <= 0 => pixel_vec[k] = None
        /\ pixel_vec[k] # None =>
               /\ Len(pixel_vec[k][1]) > 0
               /\ ItemPixel(k) \in Range(pixel_vec[k][1])
        /\ (average > 0 /\ Mapped /\ (k - 1) \notin pending) => pixel_vec[k] # None

C7_Witness ==
    /\ pc = "done"
    /\ average = MaxAverage
    /\ NumPixels(input_img) = 1

\* C8: color_difference(a, b) is the sum of the absolute channel differences,
\* so it is symmetric, zero for a = b and within 0..765, and no u8
\* subtraction in it goes below zero.
C8_MetricIsL1 ==
    /\ ~metric.underflow
    /\ metric.k = 4 =>
           /\ metric.acc = L1(metric.color1, metric.color2)
           /\ metric.acc = ColorDifference(metric.color2, metric.color1)
           /\ metric.color1 = metric.color2 => metric.acc = 0
           /\ metric.acc \in 0..(3 * U8Max)

C8_Witness ==
    /\ metric.k = 4
    /\ metric.color1[1] < metric.color2[1]
    /\ metric.color1[2] > metric.color2[2]
    /\ metric.acc = 2 * U8Max

\* C9: the colour count handed to the quantizer is the palette's length.
C9_TargetCountIsPaletteLen ==
    palette_size # None => palette_size[1] = Len(palette)

\* C10, the states: no cell is written before every item is collected; the
\* collected Vec is ordered by item (slot k is written when item k is done,
\* with the match of that item's colour); after i iterations the scatter loop has
\* written result n to cell (n mod width, n div width) once for each n < i
\* and no other cell; at the end every cell is written exactly once.
C10_State ==
    /\ (\E c \in 1..Len(put_count) : put_count[c] > 0) =>
           /\ pc \in {"scatter", "done"}
           /\ pending = {}
           /\ \A k \in Items : output[k] # None
    /\ Mapped =>
           \A k \in Items :
               /\ output[k] # None <=> (k - 1) \notin pending
               /\ output[k] # None =>
                      /\ averaged_pixel[k] # None
                      /\ output[k] = Some(NearestColor(averaged_pixel[k][1], palette))
                      /\ average <= 0 => averaged_pixel[k] = Some(ItemPixel(k))
    /\ pc \in {"scatter", "done"} =>
           \A n \in 0..(NumPixels(input_img) - 1) :
               LET cell == (n \div input_img.width) * input_img.width + (n % input_img.width) + 1
               IN IF n < i
                  THEN put_count[cell] = 1 /\ output_img.data[cell] = output[n + 1][1]
                  ELSE put_count[cell] = 0
    /\ pc = "done" =>
           /\ i = NumPixels(input_img)
           /\ \A c \in 1..Len(put_count) : put_count[c] = 1

\* C10, the steps: while the items are mapped and scattered the input image
\* and the palette do not change.
C10_Step ==
    pc \in {"map", "scatter"} => (input_img' = input_img /\ palette' = palette)

\* C10: no output cell is written while a worker is computing; the results are
\* collected in row-major order and then written by one sequential pass, each
\* cell exactly once, the input image and the palette unchanged throughout.
C10_CollectThenScatter == [](C10_State) /\ [][C10_Step]_vars

C10_Witness ==
    /\ pc = "done"
    /\ input_img.width = 2
    /\ input_img.height = 2
    /\ \A c \in 1..Len(put_count) : put_count[c] = 1
    /\ output_img.data[2] # output_img.data[3]

====
